---------------------------- MODULE Spec2Model ----------------------------
(***************************************************************************)
(* Model of src/local_semantic_db.py: the class local_semantic_db, a       *)
(* facade over an embedding model (SentenceTransformer) and a vector       *)
(* collection (chromadb).  The facade's methods are translated from the    *)
(* source; the collection's own operations (upsert, get, delete, query)    *)
(* live in the chromadb library and are modelled from the collaborator     *)
(* contract of spec.md section 6.                                          *)
(*                                                                         *)
(* Python values are encoded as follows.                                   *)
(*   text      a string; the Python None is NoneText                       *)
(*   metadata  a string naming a mapping; None is NoneMeta, {} is EmptyMeta *)
(*   id        a record [kind, gen, n]: kind "str" is a Python str, kind   *)
(*             "UUID" a uuid.UUID object, kind "None" the Python None;     *)
(*             gen tells a uuid4-generated identifier from a caller's      *)
(*   list argument   [shape, v]: shape "list" with the sequence v, shape     *)
(*             "None" for the Python None, "str" for a bare string         *)
(*   error     "none", or the error kind of spec.md section 7; the source  *)
(*             raises ValueError for ValidationError and NotFoundError     *)
(***************************************************************************)
EXTENDS Integers, Sequences, FiniteSets, TLC

\* Most records the collection holds: a call that would store more is not made.
MaxRecords == 2
\* Longest list handed to batch_insert.
MaxBatch == 2
\* Largest top_k handed to query.
MaxTopK == 2

NoneText == "<None>"
NoneMeta == "None"
EmptyMeta == "{}"

Texts == {"", "a", "b"}
TextArgs == Texts \cup {NoneText}
Metas == {"m1"}
MetaArgs == Metas \cup {NoneMeta, EmptyMeta}
\* The texts batch_insert is handed, and the texts and metadata update is.
BatchTexts == {"", "b"}
UpdateTexts == {"b", NoneText}
UpdateMetas == {NoneMeta, "m1"}
\* The numbers of the identifiers uuid.uuid4() may yield: enough for a full
\* collection and one more batch.
UuidNumbers == 1..(MaxRecords + MaxBatch)

NoneId == [kind |-> "None", gen |-> FALSE, n |-> 0]
CallerIds == {[kind |-> "str", gen |-> FALSE, n |-> 1]}
StrUuid(n) == [kind |-> "str", gen |-> TRUE, n |-> n]
ObjUuid(n) == [kind |-> "UUID", gen |-> TRUE, n |-> n]
IdArgs == CallerIds \cup {NoneId}

None == [shape |-> "None", v |-> <<>>]
NotAList == [shape |-> "str", v |-> <<>>]
List(s) == [shape |-> "list", v |-> s]

SeqsUpTo(S, n) == UNION {[1..k -> S] : k \in 0..n}

\* Python truthiness of a text and of a metadata argument.
TextTruthy(t) == t \notin {NoneText, ""}
MetaTruthy(m) == m \notin {NoneMeta, EmptyMeta}

VARIABLES collection, ret

vars == <<collection, ret>>

-----------------------------------------------------------------------------
(* The embedder *)

TextCode(t) == CASE t = "" -> 0 [] t = "a" -> 1 [] t = "b" -> 3 [] OTHER -> 5

\* embed_text: the facade's SentenceTransformer, one vector per text.
embed_text(t) == TextCode(t)

\* embed_texts: one vector per text, in order.
embed_texts(ts) == [i \in 1..Len(ts) |-> embed_text(ts[i])]

\* The embedding function the collection applies on its own when an upsert
\* brings documents without embeddings.
StoreDefaultEmbed(t) == 10 + TextCode(t)

Abs(x) == IF x < 0 THEN -x ELSE x
Distance(e1, e2) == Abs(e1 - e2)

-----------------------------------------------------------------------------
(* The vector collection (chromadb), by the contract of spec.md section 6.  *)
(* A collection is a function from the ids it holds to records              *)
(* [text, metadata, embedding].                                             *)

\* One record written by upsert: the supplied fields replace the stored ones.
\* When no embeddings are supplied the collection embeds the document with its
\* own function.
UpsertOne(c, id, embs, docs, metas, i) ==
    LET rec == [text |-> docs[i],
                metadata |-> IF metas.shape = "list" THEN metas.v[i] ELSE NoneMeta,
                embedding |-> IF embs.shape = "list" THEN embs.v[i]
                              ELSE StoreDefaultEmbed(docs[i])]
    IN [x \in DOMAIN c \cup {id} |-> IF x = id THEN rec ELSE c[x]]

RECURSIVE UpsertFrom(_, _, _, _, _, _)
UpsertFrom(c, ids, embs, docs, metas, i) ==
    IF i > Len(ids) THEN c
    ELSE UpsertFrom(UpsertOne(c, ids[i], embs, docs, metas, i),
                    ids, embs, docs, metas, i + 1)

\* collection.upsert(ids, embeddings, documents, metadatas): replace by id.
StoreUpsert(c, ids, embs, docs, metas) ==
    UpsertFrom(c, ids, embs, docs, metas, 1)

\* collection.get(ids=[id]): the documents and metadatas found, possibly none.
StoreGet(c, id) ==
    IF id \in DOMAIN c
    THEN [documents |-> <<c[id].text>>, metadatas |-> <<c[id].metadata>>]
    ELSE [documents |-> <<>>, metadatas |-> <<>>]

\* collection.delete(ids=[id]): removes the record if there is one.
StoreDelete(c, id) == [x \in DOMAIN c \ {id} |-> c[x]]

IdKey(id) == id.n + (IF id.gen THEN 10 ELSE 0) + (IF id.kind = "UUID" THEN 100 ELSE 0)

\* Closer first; equal distances in a fixed order of the ids.
Closer(c, q, x, y) ==
    \/ Distance(q, c[x].embedding) < Distance(q, c[y].embedding)
    \/ /\ Distance(q, c[x].embedding) = Distance(q, c[y].embedding)
       /\ IdKey(x) <= IdKey(y)

RECURSIVE Nearest(_, _, _)
Nearest(c, q, S) ==
    IF S = {} THEN <<>>
    ELSE LET m == CHOOSE x \in S : \A y \in S : Closer(c, q, x, y)
         IN <<m>> \o Nearest(c, q, S \ {m})

Min(a, b) == IF a <= b THEN a ELSE b

\* collection.query(query_embeddings=[q], n_results=n, where=w): the n nearest
\* records that pass the filter, as parallel lists, nearest first.
StoreQuery(c, q, n, w) ==
    LET match == {x \in DOMAIN c : w = NoneMeta \/ c[x].metadata = w}
        all == Nearest(c, q, match)
        top == SubSeq(all, 1, Min(n, Len(all)))
    IN [ids |-> top,
        documents |-> [i \in 1..Len(top) |-> c[top[i]].text],
        metadatas |-> [i \in 1..Len(top) |-> c[top[i]].metadata],
        distances |-> [i \in 1..Len(top) |-> Distance(q, c[top[i]].embedding)]]

-----------------------------------------------------------------------------
(* The facade's methods.  Each is an operator from the collection and the   *)
(* arguments to [err, coll, ...]: the error raised ("none" when the call    *)
(* returns), the collection afterwards, the value returned and calls, the   *)
(* collaborator calls made, in order.                                       *)

\* Identifier numbers uuid4 has not produced yet: those of no stored record
\* (a caller's own id is never a generated one).
Unused(c) == {n \in UuidNumbers : \A x \in DOMAIN c : ~(x.gen /\ x.n = n)}

RECURSIVE Ascending(_)
Ascending(S) ==
    IF S = {} THEN <<>>
    ELSE LET m == CHOOSE x \in S : \A y \in S : x <= y
         IN <<m>> \o Ascending(S \ {m})

\* The numbers the next calls of uuid.uuid4() yield, in order.
Fresh(c) == Ascending(Unused(c))

\* insert as it would be with the metadata left out of the upsert.
insert_no_metadata(c, text, metadata, text_id) ==
    LET id == IF text_id = NoneId THEN StrUuid(Fresh(c)[1]) ELSE text_id
    IN IF ~TextTruthy(text)
       THEN [err |-> "ValidationError", coll |-> c, id |-> NoneId, calls |-> <<>>]
       ELSE [err |-> "none",
             coll |-> StoreUpsert(c, <<id>>, List(<<embed_text(text)>>), <<text>>, None),
             id |-> id,
             calls |-> <<"embed_text", "upsert">>]

\* insert as it would be if it wrote only ids that have no record yet.
insert_if_absent(c, text, metadata, text_id) ==
    LET id == IF text_id = NoneId THEN StrUuid(Fresh(c)[1]) ELSE text_id
    IN IF ~TextTruthy(text)
       THEN [err |-> "ValidationError", coll |-> c, id |-> NoneId, calls |-> <<>>]
       ELSE [err |-> "none",
             coll |-> IF id \in DOMAIN c THEN c
                      ELSE StoreUpsert(c, <<id>>, List(<<embed_text(text)>>), <<text>>,
                                       IF MetaTruthy(metadata) THEN List(<<metadata>>)
                                       ELSE None),
             id |-> id,
             calls |-> <<"embed_text", "upsert">>]

\* insert(text, metadata, text_id), lines 40-66, for a text that is no list.
insert(c, text, metadata, text_id) ==
    LET id == IF text_id = NoneId THEN StrUuid(Fresh(c)[1]) ELSE text_id
    IN IF ~TextTruthy(text)
       THEN [err |-> "ValidationError", coll |-> c, id |-> NoneId, calls |-> <<>>]
       ELSE LET embedding == embed_text(text)
            IN [err |-> "none",
                coll |-> StoreUpsert(c, <<id>>, List(<<embedding>>), <<text>>,
                                     IF MetaTruthy(metadata) THEN List(<<metadata>>)
                                     ELSE None),
                id |-> id,
                calls |-> <<"embed_text", "upsert">>]

\* Lines 85-90: every None slot of text_ids receives uuid.uuid4(), a UUID
\* object; k counts the identifiers generated so far.
RECURSIVE FillNone(_, _, _, _)
FillNone(ids, fresh, i, k) ==
    IF i > Len(ids) THEN ids
    ELSE IF ids[i] = NoneId
         THEN FillNone([ids EXCEPT ![i] = ObjUuid(fresh[k])], fresh, i + 1, k + 1)
         ELSE FillNone(ids, fresh, i + 1, k)

\* batch_insert as it would be with one uuid4 shared by all texts
\* ([str(uuid.uuid4())] * len(texts)).
batch_insert_one_uuid(c, texts, metadatas, text_ids, acceptObj) ==
    LET fail(e, cs) == [err |-> e, coll |-> c, ids |-> <<>>, calls |-> cs]
    IN IF texts.shape # "list" \/ Len(texts.v) = 0
       THEN fail("ValidationError", <<>>)
       ELSE IF text_ids.shape # "None" /\ Len(text_ids.v) # Len(texts.v)
       THEN fail("ValidationError", <<>>)
       ELSE LET ids0 == IF text_ids.shape = "None"
                        THEN [i \in 1..Len(texts.v) |-> StrUuid(Fresh(c)[1])]
                        ELSE text_ids.v
                ids == FillNone(ids0, Fresh(c), 1, 1)
                embeddings == embed_texts(texts.v)
            IN IF metadatas.shape # "None" /\ Len(metadatas.v) # Len(texts.v)
               THEN fail("ValidationError", <<"embed_texts">>)
               ELSE LET metas == IF metadatas.shape = "None"
                                 THEN List([i \in 1..Len(texts.v) |-> NoneMeta])
                                 ELSE metadatas
                    IN IF ~acceptObj /\ \E i \in 1..Len(ids) : ids[i].kind # "str"
                       THEN fail("CollaboratorError", <<"embed_texts", "upsert">>)
                       ELSE [err |-> "none",
                             coll |-> StoreUpsert(c, ids, List(embeddings), texts.v,
                                                  metas),
                             ids |-> ids,
                             calls |-> <<"embed_texts", "upsert">>]

\* batch_insert as it would be with the length of metadatas checked after
\* the upsert.
batch_insert_late_check(c, texts, metadatas, text_ids, acceptObj) ==
    LET fail(e, cs) == [err |-> e, coll |-> c, ids |-> <<>>, calls |-> cs]
    IN IF texts.shape # "list" \/ Len(texts.v) = 0
       THEN fail("ValidationError", <<>>)
       ELSE IF text_ids.shape # "None" /\ Len(text_ids.v) # Len(texts.v)
       THEN fail("ValidationError", <<>>)
       ELSE LET ids0 == IF text_ids.shape = "None"
                        THEN [i \in 1..Len(texts.v) |-> StrUuid(Fresh(c)[i])]
                        ELSE text_ids.v
                ids == FillNone(ids0, Fresh(c), 1, 1)
                embeddings == embed_texts(texts.v)
                matching == metadatas.shape = "list" /\ Len(metadatas.v) = Len(texts.v)
                metas == IF matching THEN metadatas
                         ELSE List([i \in 1..Len(texts.v) |-> NoneMeta])
            IN IF ~acceptObj /\ \E i \in 1..Len(ids) : ids[i].kind # "str"
               THEN fail("CollaboratorError", <<"embed_texts", "upsert">>)
               ELSE [err |-> IF metadatas.shape = "list" /\ ~matching
                             THEN "ValidationError" ELSE "none",
                     coll |-> StoreUpsert(c, ids, List(embeddings), texts.v, metas),
                     ids |-> ids,
                     calls |-> <<"embed_texts", "upsert">>]

\* batch_insert(texts, metadatas, text_ids), lines 69-110.  acceptObj: whether
\* the collection takes an id that is no string.
batch_insert(c, texts, metadatas, text_ids, acceptObj) ==
    LET fail(e, cs) == [err |-> e, coll |-> c, ids |-> <<>>, calls |-> cs]
    IN IF texts.shape # "list" \/ Len(texts.v) = 0
       THEN fail("ValidationError", <<>>)
       ELSE IF text_ids.shape # "None" /\ Len(text_ids.v) # Len(texts.v)
       THEN fail("ValidationError", <<>>)
       ELSE LET ids0 == IF text_ids.shape = "None"
                        THEN [i \in 1..Len(texts.v) |-> StrUuid(Fresh(c)[i])]
                        ELSE text_ids.v
                ids == FillNone(ids0, Fresh(c), 1, 1)
                embeddings == embed_texts(texts.v)
            IN IF metadatas.shape # "None" /\ Len(metadatas.v) # Len(texts.v)
               THEN fail("ValidationError", <<"embed_texts">>)
               ELSE LET metas == IF metadatas.shape = "None"
                                 THEN List([i \in 1..Len(texts.v) |-> NoneMeta])
                                 ELSE metadatas
                    IN IF ~acceptObj /\ \E i \in 1..Len(ids) : ids[i].kind # "str"
                       THEN fail("CollaboratorError", <<"embed_texts", "upsert">>)
                       ELSE [err |-> "none",
                             coll |-> StoreUpsert(c, ids, List(embeddings), texts.v,
                                                  metas),
                             ids |-> ids,
                             calls |-> <<"embed_texts", "upsert">>]

\* query as it would be flattening over range(len(results["ids"])), the one
\* query embedding, in place of range(len(results["ids"][0])).
query_outer_len(c, query_text, top_k, where) ==
    LET results == StoreQuery(c, embed_text(query_text), top_k,
                              IF MetaTruthy(where) THEN where ELSE NoneMeta)
    IN [i \in 1..Min(1, Len(results.ids)) |->
          [id |-> results.ids[i],
           text |-> results.documents[i],
           metadata |-> results.metadatas[i],
           distance |-> results.distances[i]]]

\* query(query_text, top_k, where), lines 113-154.
query(c, query_text, top_k, where) ==
    LET embedding == embed_text(query_text)
        results == StoreQuery(c, embedding, top_k,
                              IF MetaTruthy(where) THEN where ELSE NoneMeta)
    IN [i \in 1..Len(results.ids) |->
          [id |-> results.ids[i],
           text |-> results.documents[i],
           metadata |-> results.metadatas[i],
           distance |-> results.distances[i]]]

NoEntry == [id |-> NoneId, text |-> NoneText, metadata |-> NoneMeta]

\* get(text_id), lines 157-172.
get(c, text_id) ==
    LET results == StoreGet(c, text_id)
    IN IF results.documents = <<>>
       THEN [err |-> "NotFoundError", entry |-> NoEntry]
       ELSE [err |-> "none",
             entry |-> [id |-> text_id,
                        text |-> results.documents[1],
                        metadata |-> IF results.metadatas # <<>>
                                     THEN results.metadatas[1] ELSE NoneMeta]]

\* delete as it would be if it refused an id without a record.
delete_strict(c, text_id) ==
    IF text_id \in DOMAIN c
    THEN [err |-> "none", coll |-> StoreDelete(c, text_id), calls |-> <<"delete">>]
    ELSE [err |-> "NotFoundError", coll |-> c, calls |-> <<"get">>]

\* delete(text_id), lines 175-181.
delete(c, text_id) ==
    [err |-> "none", coll |-> StoreDelete(c, text_id), calls |-> <<"delete">>]

\* update as it would be without the read of lines 191-193.
update_no_read(c, text_id, text, metadata) ==
    IF text_id = NoneId
    THEN [err |-> "ValidationError", coll |-> c, calls |-> <<>>]
    ELSE [err |-> "none",
          coll |-> StoreUpsert(c, <<text_id>>, None, <<text>>,
                               IF MetaTruthy(metadata) THEN List(<<metadata>>)
                               ELSE None),
          calls |-> <<"upsert">>]

\* update(text_id, text, metadata), lines 184-200.  The upsert carries no
\* embeddings.
update(c, text_id, text, metadata) ==
    IF text_id = NoneId
    THEN [err |-> "ValidationError", coll |-> c, calls |-> <<>>]
    ELSE LET results == StoreGet(c, text_id)
         IN IF results.documents = <<>>
            THEN [err |-> "NotFoundError", coll |-> c, calls |-> <<"get">>]
            ELSE [err |-> "none",
                  coll |-> StoreUpsert(c, <<text_id>>, None, <<text>>,
                                       IF MetaTruthy(metadata) THEN List(<<metadata>>)
                                       ELSE None),
                  calls |-> <<"get", "upsert">>]

\* insert with text, metadata and text_id all lists, lines 47-48.
insert_lists(c, text, metadata, text_id, acceptObj) ==
    batch_insert(c, text, metadata, text_id, acceptObj)

-----------------------------------------------------------------------------
(* The state machine: collection is the active collection, ret the last     *)
(* call made on the facade: its name, the error it raised ("none": it       *)
(* returned), n, the number of ids or items it returned, and, for an insert *)
(* or a batch_insert that returned, its arguments and the ids it returned.  *)

TextLists == {List(s) : s \in SeqsUpTo(BatchTexts, MaxBatch)}
MetaLists == {List(<<"m1">>)}
\* A caller's id appears at most once in a list (spec.md section 9 leaves the
\* outcome of a repeated id to the collection).
IdLists == {List(s) : s \in {q \in SeqsUpTo(IdArgs, MaxBatch) :
                /\ Len(q) > 0
                /\ \A i, j \in 1..Len(q) : (i # j /\ q[i] = q[j]) => q[i] = NoneId}}

\* The lists insert is handed: one text, one id.
OneTextLists == {List(<<t>>) : t \in BatchTexts}
OneIdLists == {List(<<i>>) : i \in IdArgs}

Size(c) == Cardinality(DOMAIN c)

\* The collection's choice on an id that is no string matters only to a call
\* that generates one: a list of ids with a None slot.
StoreChoices(text_ids) ==
    IF \E i \in 1..Len(text_ids.v) : text_ids.v[i] = NoneId THEN BOOLEAN ELSE {TRUE}

Call(op, err, n) ==
    [op |-> op, err |-> err, n |-> n, text |-> NoneText, meta |-> NoneMeta,
     texts |-> None, text_ids |-> None, ids |-> <<>>]

\* __init__, lines 7-22: the collection is opened, here newly created.
Init ==
    /\ collection = <<>>
    /\ ret = Call("none", "none", 0)

Insert ==
    \E text \in TextArgs, metadata \in MetaArgs, text_id \in IdArgs :
        LET r == insert(collection, text, metadata, text_id)
        IN /\ Size(r.coll) <= MaxRecords
           /\ collection' = r.coll
           /\ ret' = IF r.err # "none" THEN Call("insert", r.err, 0)
                     ELSE [Call("insert", "none", 1) EXCEPT
                              !.text = text, !.meta = metadata,
                              !.text_ids = List(<<text_id>>), !.ids = <<r.id>>]

BatchReturn(op, r, texts, text_ids) ==
    IF r.err # "none" THEN Call(op, r.err, 0)
    ELSE [Call(op, "none", Len(r.ids)) EXCEPT
             !.texts = texts, !.text_ids = text_ids, !.ids = r.ids]

InsertLists ==
    \E text \in OneTextLists, metadata \in MetaLists, text_id \in OneIdLists :
      \E acceptObj \in StoreChoices(text_id) :
        LET r == insert_lists(collection, text, metadata, text_id, acceptObj)
        IN /\ Size(r.coll) <= MaxRecords
           /\ collection' = r.coll
           /\ ret' = BatchReturn("insert_lists", r, text, text_id)

BatchInsert ==
    \E texts \in TextLists \cup {None, NotAList}, metadatas \in MetaLists \cup {None},
       text_ids \in IdLists \cup {None} :
      \E acceptObj \in StoreChoices(text_ids) :
        LET r == batch_insert(collection, texts, metadatas, text_ids, acceptObj)
        IN /\ Size(r.coll) <= MaxRecords
           /\ collection' = r.coll
           /\ ret' = BatchReturn("batch_insert", r, texts, text_ids)

QueryArgs == {"a", "b"} \X (1..MaxTopK) \X MetaArgs

Query ==
    \E a \in QueryArgs :
        /\ collection' = collection
        /\ ret' = Call("query", "none", Len(query(collection, a[1], a[2], a[3])))

\* The ids a caller may name: its own, and those earlier calls returned.
KnownIds(c) == CallerIds \cup DOMAIN c \cup {StrUuid(1)}

Get ==
    \E text_id \in KnownIds(collection) :
        /\ collection' = collection
        /\ ret' = Call("get", get(collection, text_id).err, 0)

Delete ==
    \E text_id \in KnownIds(collection) :
        LET r == delete(collection, text_id)
        IN /\ collection' = r.coll
           /\ ret' = Call("delete", r.err, 0)

Update ==
    \E text_id \in KnownIds(collection) \cup {NoneId}, text \in UpdateTexts,
       metadata \in UpdateMetas :
        LET r == update(collection, text_id, text, metadata)
        IN /\ collection' = r.coll
           /\ ret' = Call("update", r.err, 0)

Next ==
    \/ Insert
    \/ InsertLists
    \/ BatchInsert
    \/ Query
    \/ Get
    \/ Delete
    \/ Update

Spec == Init /\ [][Next]_vars

\* The calls on single records: insert with one text, get, delete, update.
NextRecords ==
    \/ Insert
    \/ Get
    \/ Delete
    \/ Update

SpecRecords == Init /\ [][NextRecords]_vars

\* The calls on lists: batch_insert, insert handed a list, and delete.
NextBatch ==
    \/ BatchInsert
    \/ InsertLists
    \/ Delete

SpecBatch == Init /\ [][NextBatch]_vars

-----------------------------------------------------------------------------
(* Properties.  A property of the form "op followed by get" is stated from   *)
(* every reachable collection and for every argument the actions draw.       *)

\* C1, as claimed: when insert(text, metadata) has returned an id, get of
\* that id yields the inserted text and the supplied metadata (a mapping, or
\* none when none was supplied).
C1_Original ==
    (ret.op = "insert" /\ ret.err = "none") =>
        LET g == get(collection, ret.ids[1])
        IN /\ TextTruthy(ret.text)
           /\ g.err = "none"
           /\ g.entry.text = ret.text
           /\ g.entry.metadata = ret.meta

\* C1, amended: when insert(text, metadata) has returned an id, get of that
\* id yields the inserted text, and the supplied metadata when that is a
\* non-empty mapping; the metadata is absent when none or an empty mapping
\* was supplied.
C1_InsertThenGet ==
    (ret.op = "insert" /\ ret.err = "none") =>
        LET g == get(collection, ret.ids[1])
        IN /\ TextTruthy(ret.text)
           /\ g.err = "none"
           /\ g.entry.text = ret.text
           /\ g.entry.metadata = IF ret.meta = EmptyMeta THEN NoneMeta ELSE ret.meta

\* An insert with a non-empty metadata has returned a generated id.
C1_Witness ==
    /\ ret.op = "insert" /\ ret.err = "none"
    /\ ret.meta = "m1" /\ ret.ids[1].gen
    /\ ret.ids[1] \in DOMAIN collection

\* C2, as claimed: no record of the collection has an absent or empty text.
C2_NoEmptyText ==
    \A id \in DOMAIN collection : TextTruthy(collection[id].text)

\* C3, as claimed: every record has the facade Embedder's embedding of its
\* current text (so update stores the facade's embedding of the new text).
C3_EmbeddingOfCurrentText ==
    \A id \in DOMAIN collection :
        collection[id].embedding = embed_text(collection[id].text)

\* C4: batch_insert(texts) with a non-empty list and no ids returns len(texts)
\* ids, and get on the i-th succeeds with the i-th text.
C4_BatchThenGet ==
    \A texts \in TextLists, acceptObj \in BOOLEAN :
        Len(texts.v) > 0 =>
            LET r == batch_insert(collection, texts, None, None, acceptObj)
            IN /\ r.err = "none"
               /\ Len(r.ids) = Len(texts.v)
               /\ \A i \in 1..Len(texts.v) :
                     /\ get(r.coll, r.ids[i]).err = "none"
                     /\ get(r.coll, r.ids[i]).entry.text = texts.v[i]

\* A batch_insert of two texts has returned and both generated ids are held,
\* with different texts.
C4_Witness ==
    /\ ret.op = "batch_insert" /\ ret.err = "none" /\ ret.n = 2
    /\ \E x, y \in DOMAIN collection :
          /\ x # y /\ x.gen /\ y.gen /\ x.kind = "str" /\ y.kind = "str"
          /\ collection[x].text = "" /\ collection[y].text = "b"

\* C5: update on an id without a record fails with NotFoundError and leaves
\* the collection as it was; update(id, text) on an id with a record succeeds
\* and get(id) then returns the new text.
C5_Update ==
    \A text_id \in KnownIds(collection), text \in UpdateTexts,
       metadata \in UpdateMetas :
        LET r == update(collection, text_id, text, metadata)
        IN IF text_id \in DOMAIN collection
           THEN /\ r.err = "none"
                /\ get(r.coll, text_id).err = "none"
                /\ get(r.coll, text_id).entry.text = text
           ELSE /\ r.err = "NotFoundError"
                /\ r.coll = collection

\* An update has failed on an id without a record while the collection holds
\* the record an earlier update wrote.
C5_Witness ==
    /\ ret.op = "update" /\ ret.err = "NotFoundError"
    /\ \E id \in DOMAIN collection :
          /\ collection[id].text = "b"
          /\ collection[id].embedding = StoreDefaultEmbed("b")
    /\ \E id \in KnownIds(collection) : id \notin DOMAIN collection

\* What an insert that returned id did to a collection that held a record
\* under id: no record added, no other record changed, and the record under
\* id now has the call's text, its embedding, and metadata meta.
Replaced(c, d, id, text, meta) ==
    /\ DOMAIN d = DOMAIN c
    /\ \A x \in DOMAIN c \ {id} : d[x] = c[x]
    /\ get(d, id).err = "none"
    /\ get(d, id).entry.text = text
    /\ get(d, id).entry.metadata = meta
    /\ d[id].embedding = embed_text(text)

\* C6, as claimed: an insert with an id that has a record (in particular the
\* second of two inserts of the same id, text and metadata) adds no record:
\* it replaces the text, the metadata and the embedding of that record, and
\* get(id) returns the values of the latest call.
C6_Original ==
    [][(ret'.op = "insert" /\ ret'.err = "none" /\ ret'.ids[1] \in DOMAIN collection)
          => Replaced(collection, collection', ret'.ids[1], ret'.text, ret'.meta)]_vars

\* C6, amended: as claimed, except that the record's metadata is that of the
\* latest call when it is a non-empty mapping, and absent when the latest
\* call supplied none or an empty mapping.
C6_InsertTwice ==
    [][(ret'.op = "insert" /\ ret'.err = "none" /\ ret'.ids[1] \in DOMAIN collection)
          => Replaced(collection, collection', ret'.ids[1], ret'.text,
                      IF ret'.meta = EmptyMeta THEN NoneMeta ELSE ret'.meta)]_vars

\* An insert under the caller's id has returned, the record under that id
\* has the call's text and metadata, and a second record lies beside it.
C6_Witness ==
    /\ ret.op = "insert" /\ ret.err = "none"
    /\ ret.ids[1] \in CallerIds
    /\ ret.ids[1] \in DOMAIN collection
    /\ collection[ret.ids[1]].text = "b" /\ collection[ret.ids[1]].metadata = "m1"
    /\ Size(collection) = 2

\* The arguments batch_insert rejects: texts absent, no list or empty, or a
\* list of ids or of metadatas whose length is not that of texts.
Rejected(texts, metadatas, text_ids) ==
    \/ texts.shape # "list"
    \/ Len(texts.v) = 0
    \/ text_ids.shape = "list" /\ Len(text_ids.v) # Len(texts.v)
    \/ metadatas.shape = "list" /\ Len(metadatas.v) # Len(texts.v)

\* C7: batch_insert fails with ValidationError on every rejected argument,
\* before any upsert: the collection is as it was.
C7_BatchValidation ==
    \A texts \in TextLists \cup {None, NotAList}, metadatas \in MetaLists \cup {None},
       text_ids \in IdLists \cup {None}, acceptObj \in BOOLEAN :
        Rejected(texts, metadatas, text_ids) =>
            LET r == batch_insert(collection, texts, metadatas, text_ids, acceptObj)
            IN /\ r.err = "ValidationError"
               /\ \A i \in 1..Len(r.calls) : r.calls[i] # "upsert"
               /\ r.coll = collection

\* A batch_insert has failed with ValidationError on a collection that holds
\* records.
C7_Witness ==
    /\ ret.op = "batch_insert" /\ ret.err = "ValidationError"
    /\ Size(collection) > 0

\* C8: delete on an id without a record returns and leaves the collection as
\* it was; after any delete(id), get(id) fails with NotFoundError.
C8_Delete ==
    \A text_id \in KnownIds(collection) :
        LET r == delete(collection, text_id)
        IN /\ r.err = "none"
           /\ text_id \notin DOMAIN collection => r.coll = collection
           /\ get(r.coll, text_id).err = "NotFoundError"

\* A delete has returned and left a full collection: the id it named had no
\* record.
C8_Witness ==
    /\ ret.op = "delete" /\ ret.err = "none"
    /\ Size(collection) = MaxRecords

\* C9: query returns at most top_k items, in non-decreasing distance, one per
\* match the collection returned and in the collection's order.
C9_Query ==
    \A a \in QueryArgs :
        LET items == query(collection, a[1], a[2], a[3])
            results == StoreQuery(collection, embed_text(a[1]), a[2],
                                  IF MetaTruthy(a[3]) THEN a[3] ELSE NoneMeta)
        IN /\ Len(items) <= a[2]
           /\ \A i \in 1..(Len(items) - 1) : items[i].distance <= items[i + 1].distance
           /\ Len(items) = Len(results.ids)
           /\ \A i \in 1..Len(items) :
                 /\ items[i].id = results.ids[i]
                 /\ items[i].text = results.documents[i]
                 /\ items[i].distance = results.distances[i]

\* A query has returned two items from records at different distances.
C9_Witness ==
    /\ ret.op = "query" /\ ret.n = 2
    /\ \E x, y \in DOMAIN collection :
          collection[x].embedding # collection[y].embedding

\* C10, as claimed: batch_insert returns the ids used, in the order of texts:
\* a generated string identifier in every slot when ids is absent and in
\* every absent slot of ids, the provided id in every other slot; and the
\* records are upserted under exactly these ids.
C10_BatchIds ==
    (ret.op = "batch_insert" /\ ret.err = "none") =>
        /\ Len(ret.ids) = Len(ret.texts.v)
        /\ \A i \in 1..Len(ret.ids) :
              /\ IF ret.text_ids.shape = "list" /\ ret.text_ids.v[i] # NoneId
                 THEN ret.ids[i] = ret.text_ids.v[i]
                 ELSE ret.ids[i].gen /\ ret.ids[i].kind = "str"
              /\ ret.ids[i] \in DOMAIN collection
              /\ collection[ret.ids[i]].text = ret.texts.v[i]

=============================================================================
